---- MODULE Spec2Model ----
(***************************************************************************)
(* A model of idne/models/data_generator.py: the inverse-CDF sampler       *)
(* RandomChoice, the row-wise sampler MultipleRandomChoice, the batch      *)
(* generator generate_batches and its one-slot prefetch async_batches.     *)
(*                                                                         *)
(* Floating point values are modelled as exact rationals <<n, d>> in       *)
(* lowest terms (d > 0); a uniform sample of [0, 1) ranges over the grid   *)
(* t / Resolution.  Arrays are sequences; the code's 0-based index i is    *)
(* position i + 1.                                                          *)
(***************************************************************************)
EXTENDS Integers, Sequences, FiniteSets, TLC

\* ------------------------------------------------------------------ bounds
MaxLen == 3          \* longest weight vector handed to RandomChoice
MaxP == 2            \* largest weight of such a vector
MaxWeight == 1       \* largest entry of a weight matrix
Resolution == 4      \* grid of the uniform samples: u = t / Resolution
MaxIter == 2         \* largest number_iterations
MaxExtra == 2        \* requests made after the end of a sequence
MaxDrawn == 4        \* batch length x number_iterations of a generator run

\* The nodes of the weight matrices: 3 rows, so that an empty row can lie
\* before, between and after non-empty rows.
Nodes == 0 .. 2

VARIABLES
    rc_w,        \* the weights RandomChoice was constructed from
    rc_p,        \* the caller's array p (normalised in place by __init__)
    rc_cdf,      \* RandomChoice.cdf
    rc_u,        \* the uniform sample of the last get()
    rc_idx,      \* the result of the last get()
    rc_phase,    \* "new" | "built" | "drawn"
    mat0,        \* the matrix as the caller built it
    mat,         \* the caller's matrix object: its entries
    stored,      \* the positions <<i, j>> the sparse matrix stores an entry for
    choices,     \* MultipleRandomChoice.choices
    rc,          \* MultipleRandomChoice.rc (the cdf of each row's sampler)
    m_arg,       \* the argument of the last __getitem__
    m_res,       \* the result of the last __getitem__
    m_phase,     \* "new" | "built" | "drawn"
    args,        \* generate_batches' number_negative, number_iterations, batch_size
    gen_state,   \* the generator it: "created" | "suspended" | "finished"
    gen_i,       \* the batches the loop of line 88 has yielded
    gen_out,     \* what the last next(it) gave: a batch, StopIteration or an error
    gen_pre,     \* batch_u, batch_v, batch_x and shuind of the last batch, before line 101
    n_batches,   \* the number of batches it has yielded
    gen_err,     \* the error it has raised, "none" when it has raised none
    n_extra,     \* requests made after the sequence ended
    pc,          \* async_batches: the line the wrapper is at, or how it ended
    current_batch,
    taskqueue,   \* the tasks given to the pool that its worker has not taken
    worker,      \* the pool's worker thread: 0 when idle, else the task it runs
    async_result,\* the ApplyResult of the last apply_async
    produced,    \* the batches it has yielded, in order
    delivered,   \* the batches the wrapper has yielded to its consumer, in order
    submitted,   \* the number of apply_async calls
    retrieved,   \* the number of async_result.get() calls that have returned
    raised       \* the error the wrapper has raised to its consumer, or "none"

rcVars == <<rc_w, rc_p, rc_cdf, rc_u, rc_idx, rc_phase>>
mrcVars == <<mat0, mat, stored, choices, rc, m_arg, m_res, m_phase>>
genVars == <<args, gen_state, gen_i, gen_out, gen_pre, n_batches, gen_err, n_extra>>
asyncVars ==
    <<pc, current_batch, taskqueue, worker, async_result, produced, delivered,
      submitted, retrieved, raised>>
vars == <<rcVars, mrcVars, genVars, asyncVars>>

\* ---------------------------------------------------------------- rationals
RECURSIVE GCD(_, _)
GCD(a, b) == IF b = 0 THEN a ELSE GCD(b, a % b)

Rat(n, d) == LET g == GCD(n, d) IN IF n = 0 THEN <<0, 1>> ELSE <<n \div g, d \div g>>
RAdd(a, b) == Rat(a[1] * b[2] + b[1] * a[2], a[2] * b[2])
RDiv(a, b) == Rat(a[1] * b[2], a[2] * b[1])
RLeq(a, b) == a[1] * b[2] <= b[1] * a[2]
RLess(a, b) == a[1] * b[2] < b[1] * a[2]

RECURSIVE RSum(_)
RSum(s) == IF s = <<>> THEN <<0, 1>> ELSE RAdd(RSum(SubSeq(s, 1, Len(s) - 1)), s[Len(s)])

\* numpy's cumsum
cumsum(s) == [i \in 1 .. Len(s) |-> RSum(SubSeq(s, 1, i))]

\* np.random.random_sample: a value of [0, 1)
Uniform == {Rat(t, Resolution) : t \in 0 .. Resolution - 1}

\* --------------------------------------------------------------- RandomChoice
\* RandomChoice.__init__: p /= p.sum(), in place; cdf = p.cumsum(); cdf /= cdf[-1]
RandomChoice_init(p) ==
    LET s == RSum(p)
        pn == [i \in 1 .. Len(p) |-> RDiv(p[i], s)]
        c == cumsum(pn)
    IN [p |-> pn, cdf |-> [i \in 1 .. Len(c) |-> RDiv(c[i], c[Len(c)])]]

\* searchsorted(side='left'): the number of entries < u
searchsorted_left(cdf, u) == Cardinality({i \in 1 .. Len(cdf) : RLess(cdf[i], u)})

\* cdf.searchsorted(u, side='right'): the number of entries <= u (cdf is sorted)
searchsorted(cdf, u) == Cardinality({i \in 1 .. Len(cdf) : RLeq(cdf[i], u)})

\* RandomChoice.get, for the uniform sample u: a 0-based index
RandomChoice_get(cdf, u) == searchsorted(cdf, u)

\* ------------------------------------------------------- MultipleRandomChoice
\* sklearn.preprocessing.normalize(mat, axis=1, norm='l1', copy=False): each row
\* divided by its sum, a zero row left alone; the result is written into mat.
RowSeq(m, i) == [j \in 1 .. Cardinality(Nodes) |-> m[i][j - 1]]

normalize(m) ==
    [i \in Nodes |-> LET s == RSum(RowSeq(m, i))
                     IN IF s[1] = 0 THEN m[i] ELSE [j \in Nodes |-> RDiv(m[i][j], s)]]

\* mat.eliminate_zeros(): the stored entries that are zero are dropped.
eliminate_zeros(m, st) == {p \in st : m[p[1]][p[2]][1] # 0}

\* The stored positions of m from <<i, j>> on, in row-major order (the order
\* of a CSR matrix's data): all of them, or those of a nonzero entry only.
RECURSIVE entries_from(_, _, _, _, _)
entries_from(m, st, i, j, all) ==
    IF i >= Cardinality(Nodes) THEN <<>>
    ELSE IF j >= Cardinality(Nodes) THEN entries_from(m, st, i + 1, 0, all)
    ELSE (IF <<i, j>> \in st /\ (all \/ m[i][j][1] # 0) THEN <<<<i, j>>>> ELSE <<>>)
         \o entries_from(m, st, i, j + 1, all)

\* transition_probs.nonzero(): rows and columns of the stored entries that are
\* not zero.
nonzero(m, st) == entries_from(m, st, 0, 0, FALSE)

\* transition_probs.data: the values of all stored entries.
data_of(m, st) ==
    LET at == entries_from(m, st, 0, 0, TRUE)
    IN [k \in 1 .. Len(at) |-> m[at[k][1]][at[k][2]]]

\* The while loop of lines 58-61: the entries of row i from position k on
\* (k is the code's 0-based position in nonzero and data, K = len(data)).
RECURSIVE row_entries(_, _, _, _, _, _)
row_entries(nz, data, i, k, ch, pr) ==
    IF k < Len(data) /\ nz[k + 1][1] = i
    THEN row_entries(nz, data, i, k + 1, Append(ch, nz[k + 1][2]), Append(pr, data[k + 1]))
    ELSE [k |-> k, ch |-> ch, pr |-> pr]

\* Lines 51 and 55 giving the row of the next stored entry in place of i.
RECURSIVE build_rows_selfless(_, _, _, _, _, _)
build_rows_selfless(nz, data, i, k, ch, pr) ==
    IF i >= Cardinality(Nodes) THEN [choices |-> ch, probs |-> pr]
    ELSE IF k >= Len(data)
    THEN build_rows_selfless(nz, data, i + 1, k, Append(ch, <<i>>), Append(pr, <<<<1, 1>>>>))
    ELSE IF nz[k + 1][1] > i
    THEN build_rows_selfless(nz, data, i + 1, k, Append(ch, <<nz[k + 1][1]>>),
                             Append(pr, <<<<1, 1>>>>))
    ELSE LET r == row_entries(nz, data, i, k, <<>>, <<>>)
         IN build_rows_selfless(nz, data, i + 1, r.k, Append(ch, r.ch), Append(pr, r.pr))

\* The for loop of lines 47-63, from row i on, with k entries consumed: choices
\* and probs of every row.  A row that comes after every stored entry gets its
\* own index at line 51, a row the current entry lies beyond gets it at line 55.
RECURSIVE build_rows(_, _, _, _, _, _)
build_rows(nz, data, i, k, ch, pr) ==
    IF i >= Cardinality(Nodes) THEN [choices |-> ch, probs |-> pr]
    ELSE IF k >= Len(data)
    THEN build_rows(nz, data, i + 1, k, Append(ch, <<i>>), Append(pr, <<<<1, 1>>>>))
    ELSE IF nz[k + 1][1] > i
    THEN build_rows(nz, data, i + 1, k, Append(ch, <<i>>), Append(pr, <<<<1, 1>>>>))
    ELSE LET r == row_entries(nz, data, i, k, <<>>, <<>>)
         IN build_rows(nz, data, i + 1, r.k, Append(ch, r.ch), Append(pr, r.pr))

\* MultipleRandomChoice.__init__: the matrix after the call (its entries and
\* its stored positions), choices, and the cdf of the RandomChoice of every row.
MultipleRandomChoice_init(m, st) ==
    LET kept == eliminate_zeros(m, st)
        transition_probs == normalize(m)
        b == build_rows(nonzero(transition_probs, kept), data_of(transition_probs, kept),
                        0, 0, <<>>, <<>>)
    IN [mat |-> transition_probs,
        stored |-> kept,
        choices |-> b.choices,
        rc |-> [i \in 1 .. Len(b.probs) |-> RandomChoice_init(b.probs[i]).cdf]]

\* MultipleRandomChoice.__getitem__(arg), for the uniform sample u
MultipleRandomChoice_getitem(ch, cdfs, arg, u) ==
    ch[arg + 1][RandomChoice_get(cdfs[arg + 1], u) + 1]

\* ------------------------------------------------- the samplers, as programs
NoVec == <<>>
NoMat == [i \in Nodes |-> [j \in Nodes |-> <<0, 1>>]]

rcIdle ==
    /\ rc_w = NoVec /\ rc_p = NoVec /\ rc_cdf = NoVec
    /\ rc_u = <<0, 1>> /\ rc_idx = 0 /\ rc_phase = "unused"

mrcIdle ==
    /\ mat0 = NoMat /\ mat = NoMat /\ stored = {} /\ choices = <<>> /\ rc = <<>>
    /\ m_arg = 0 /\ m_res = 0 /\ m_phase = "unused"

\* The weight vectors a caller may pass: at least one positive entry.
WeightVectors ==
    {w \in UNION {[1 .. n -> 0 .. MaxP] : n \in 1 .. MaxLen} : \E i \in DOMAIN w : w[i] > 0}

NoOut == [kind |-> "none", value |-> <<>>]
NoPre == [u |-> <<>>, v |-> <<>>, x |-> <<>>, shuind |-> <<>>]

genIdle ==
    /\ args = [number_negative |-> 0, number_iterations |-> 0, batch_size |-> 0]
    /\ gen_state = "unused" /\ gen_i = 0 /\ gen_out = NoOut /\ gen_pre = NoPre
    /\ n_batches = 0 /\ gen_err = "none" /\ n_extra = 0

NoResult == [id |-> 0, state |-> "none", out |-> NoOut]

asyncIdle ==
    /\ pc = "unused" /\ current_batch = <<>> /\ taskqueue = <<>> /\ worker = 0
    /\ async_result = NoResult /\ produced = <<>> /\ delivered = <<>>
    /\ submitted = 0 /\ retrieved = 0 /\ raised = "none"

InitRC ==
    /\ rc_w \in WeightVectors
    /\ rc_p = [i \in DOMAIN rc_w |-> <<rc_w[i], 1>>]
    /\ rc_cdf = NoVec /\ rc_u = <<0, 1>> /\ rc_idx = 0 /\ rc_phase = "new"
    /\ mrcIdle /\ genIdle /\ asyncIdle

\* rc = RandomChoice(p)
RCConstruct ==
    /\ rc_phase = "new"
    /\ LET r == RandomChoice_init(rc_p)
       IN rc_p' = r.p /\ rc_cdf' = r.cdf
    /\ rc_phase' = "built"
    /\ UNCHANGED <<rc_w, rc_u, rc_idx, mrcVars, genVars, asyncVars>>

\* rc.get()
RCGet ==
    /\ rc_phase \in {"built", "drawn"}
    /\ \E u \in Uniform :
        /\ rc_u' = u
        /\ rc_idx' = RandomChoice_get(rc_cdf, u)
    /\ rc_phase' = "drawn"
    /\ UNCHANGED <<rc_w, rc_p, rc_cdf, mrcVars, genVars, asyncVars>>

NextRC == RCConstruct \/ RCGet
SpecRC == InitRC /\ [][NextRC]_vars

\* The square non-negative matrices over Nodes.
Matrices ==
    {[i \in Nodes |-> [j \in Nodes |-> <<w[i][j], 1>>]] : w \in [Nodes -> [Nodes -> 0 .. MaxWeight]]}

\* The positions of the entries of m that are not zero.
support(m) == {p \in Nodes \X Nodes : m[p[1]][p[2]][1] # 0}

\* What a sparse matrix with the entries of m may store: its nonzero entries,
\* or an entry for every position (explicit zeros).
Storages(m) == {support(m), Nodes \X Nodes}

InitMRC ==
    /\ mat0 \in Matrices
    /\ mat = mat0
    /\ stored \in Storages(mat0)
    /\ choices = <<>> /\ rc = <<>> /\ m_arg = 0 /\ m_res = 0 /\ m_phase = "new"
    /\ rcIdle /\ genIdle /\ asyncIdle

\* random_choice = MultipleRandomChoice(mat)
MRCConstruct ==
    /\ m_phase = "new"
    /\ LET r == MultipleRandomChoice_init(mat, stored)
       IN mat' = r.mat /\ stored' = r.stored /\ choices' = r.choices /\ rc' = r.rc
    /\ m_phase' = "built"
    /\ UNCHANGED <<mat0, m_arg, m_res, rcVars, genVars, asyncVars>>

\* random_choice[arg]
MRCGetItem ==
    /\ m_phase \in {"built", "drawn"}
    /\ \E arg \in Nodes, u \in Uniform :
        /\ m_arg' = arg
        /\ m_res' = MultipleRandomChoice_getitem(choices, rc, arg, u)
    /\ m_phase' = "drawn"
    /\ UNCHANGED <<mat0, mat, stored, choices, rc, rcVars, genVars, asyncVars>>

NextMRC == MRCConstruct \/ MRCGetItem
SpecMRC == InitMRC /\ [][NextMRC]_vars

\* ------------------------------------------------------------ generate_batches
\* np.tile(drawn, reps)
tile(a, reps) == [p \in 1 .. Len(a) * reps |-> a[((p - 1) % Len(a)) + 1]]

\* np.ones(n) and -np.ones(n)
ones(n) == [p \in 1 .. n |-> 1]
minus_ones(n) == [p \in 1 .. n |-> -1]

\* a[shuind]
take(a, shuind) == [p \in 1 .. Len(shuind) |-> a[shuind[p]]]

\* np.random.shuffle(np.arange(n)): any permutation of the n positions
Permutations_of(n) ==
    {f \in [1 .. n -> 1 .. n] : \A a, b \in 1 .. n : f[a] = f[b] => a = b}

\* Lines 92-94: the values batch_v[0 .. batch_size-1] can take, batch_v[j] being
\* random_choice[batch_u[j]] for one uniform sample each.
positive_targets(ch, cdfs, batch_u, B) ==
    {v \in [1 .. B -> Nodes] :
        \A j \in 1 .. B :
            \E u \in Uniform : v[j] = MultipleRandomChoice_getitem(ch, cdfs, batch_u[j], u)}

\* The random draws of one iteration: line 89 (drawn), the positive targets
\* of lines 92-94 (pos), line 95 (negs) and line 99 (shuind).
Draws(ch, cdfs, B, K) ==
    UNION {[drawn : {drawn}, pos : positive_targets(ch, cdfs, tile(drawn, K + 1), B),
            negs : [1 .. B * K -> Nodes], shuind : Permutations_of(B * (1 + K))] :
           drawn \in [1 .. B -> Nodes]}

\* Lines 89-97: batch_u, batch_v and batch_x before the shuffle.
batch_arrays(B, K, d) ==
    [u |-> tile(d.drawn, K + 1),
     v |-> d.pos \o d.negs,
     x |-> ones(B) \o minus_ones(B * K),
     shuind |-> d.shuind]

\* Line 101, with batch_u left unshuffled.
yielded_u_unshuffled(pre) == <<pre.u, take(pre.v, pre.shuind), take(pre.x, pre.shuind)>>

\* Line 101: the value yielded, batch_u[shuind], batch_v[shuind], batch_x[shuind].
yielded(pre) == <<take(pre.u, pre.shuind), take(pre.v, pre.shuind), take(pre.x, pre.shuind)>>

\* range(number_iterations) of line 88 taken one too far.
loop_continues_inclusive == gen_i <= args.number_iterations

\* Line 88: the for loop has another iteration to run.
loop_continues == gen_i < args.number_iterations

\* next(it) on a generator that has another batch to produce.
it_has_next == gen_state \in {"created", "suspended"} /\ loop_continues

\* next(it) that produces a batch: lines 84-87 on the first call, then one
\* iteration of the loop, up to the yield of line 101.  An error raised while
\* the batch is computed (one of faults, "none" for no error) leaves the
\* generator finished.
it_next_batch(faults) ==
    /\ it_has_next
    /\ LET built == IF gen_state = "created"
                    THEN MultipleRandomChoice_init(mat, stored)
                    ELSE [mat |-> mat, stored |-> stored, choices |-> choices, rc |-> rc]
       IN /\ mat' = built.mat /\ stored' = built.stored
          /\ choices' = built.choices /\ rc' = built.rc
          /\ \E fault \in faults :
                IF fault = "none"
                THEN \E d \in Draws(built.choices, built.rc, args.batch_size,
                                     args.number_negative) :
                        LET pre == batch_arrays(args.batch_size, args.number_negative, d)
                        IN /\ gen_state' = "suspended"
                           /\ gen_i' = gen_i + 1
                           /\ gen_pre' = pre
                           /\ gen_out' = [kind |-> "batch", value |-> yielded(pre)]
                           /\ n_batches' = n_batches + 1
                           /\ gen_err' = gen_err
                ELSE /\ gen_state' = "finished"
                     /\ gen_out' = [kind |-> "error", value |-> fault]
                     /\ gen_err' = fault
                     /\ UNCHANGED <<gen_i, gen_pre, n_batches>>

\* next(it) with no batch left: the loop ends (after lines 84-87 when this is
\* the first call) and the generator raises StopIteration, as does every later
\* next(it).
it_next_stop ==
    /\ ~it_has_next
    /\ LET built == IF gen_state = "created"
                    THEN MultipleRandomChoice_init(mat, stored)
                    ELSE [mat |-> mat, stored |-> stored, choices |-> choices, rc |-> rc]
       IN /\ mat' = built.mat /\ stored' = built.stored
          /\ choices' = built.choices /\ rc' = built.rc
    /\ gen_state' = "finished"
    /\ gen_out' = [kind |-> "StopIteration", value |-> <<>>]
    /\ UNCHANGED <<gen_i, gen_pre, n_batches, gen_err>>

\* The matrices the generator is run on: the example of the specification
\* (node 0 -> 1, the other nodes isolated) and a matrix with uneven rows.
GenMatrix(w) == [i \in Nodes |-> [j \in Nodes |-> <<w[i + 1][j + 1], 1>>]]
GenMatrices ==
    {GenMatrix(<<<<0, 1, 0>>, <<0, 0, 0>>, <<0, 0, 0>>>>),
     GenMatrix(<<<<0, 2, 1>>, <<0, 0, 0>>, <<3, 0, 1>>>>)}

\* The arguments the generator is run with: batch sizes 1 and 2, 0 to 2
\* negatives per positive, 0 .. MaxIter iterations, as long as the run draws
\* at most MaxDrawn pairs.
GenArgs ==
    {a \in [number_negative : 0 .. 2, number_iterations : 0 .. MaxIter, batch_size : 1 .. 2] :
        a.batch_size * (1 + a.number_negative) * a.number_iterations <= MaxDrawn}

InitGen ==
    /\ mat0 \in GenMatrices /\ mat = mat0 /\ stored = support(mat0)
    /\ choices = <<>> /\ rc = <<>> /\ m_arg = 0 /\ m_res = 0 /\ m_phase = "unused"
    /\ args \in GenArgs
    /\ gen_state = "created" /\ gen_i = 0 /\ gen_out = NoOut /\ gen_pre = NoPre
    /\ n_batches = 0 /\ gen_err = "none" /\ n_extra = 0
    /\ rcIdle /\ asyncIdle

\* next(it), giving a batch
GenNextBatch ==
    /\ it_next_batch({"none"})
    /\ UNCHANGED <<mat0, m_arg, m_res, m_phase, args, n_extra, rcVars, asyncVars>>

\* next(it), raising StopIteration: at the end of the loop and, up to
\* MaxExtra times, after it
GenNextStop ==
    /\ gen_state = "finished" => n_extra < MaxExtra
    /\ it_next_stop
    /\ n_extra' = IF gen_state = "finished" THEN n_extra + 1 ELSE n_extra
    /\ UNCHANGED <<mat0, m_arg, m_res, m_phase, args, rcVars, asyncVars>>

NextGen == GenNextBatch \/ GenNextStop
SpecGen == InitGen /\ [][NextGen]_vars

\* --------------------------------------------------------------- async_batches
\* Two threads: the consumer's thread, which runs the wrapper's body whenever
\* the consumer asks for the next element, and the one worker thread of
\* ThreadPool(processes=1), which runs the tasks of the pool.  pc is the line
\* of async_batches the consumer's thread is at:
\*   "start"      the wrapper is created and has not run
\*   "line112"    current_batch = next(it)
\*   "line118"    async_result = pool.apply_async(it.__next__)
\*   "line119"    yield current_batch: about to hand the batch over
\*   "suspended"  suspended at the yield, the consumer holds the batch
\*   "line120"    current_batch = async_result.get()
\*   "done"       returned (lines 114, 122): the wrapper ended with StopIteration
\*   "raised"     an error left the wrapper

\* The errors a batch's computation may raise (an allocation of lines 89-99
\* failing, a bad argument reaching numpy).
Errors == {"MemoryError", "ValueError"}
Faults == {"none"} \cup Errors

\* The truth value of a batch: a tuple is true when it is not empty (line 116).
truthy(batch) == Len(batch) # 0

\* The sequence it has yielded so far, after a next(it) whose outcome is out.
produced_after(out) == IF out.kind = "batch" THEN Append(produced, out.value) ELSE produced

AsyncArgs ==
    [number_negative : 0 .. 1, number_iterations : 0 .. MaxIter, batch_size : {1}]

InitAsync ==
    /\ mat0 = GenMatrix(<<<<0, 1, 0>>, <<0, 0, 0>>, <<0, 0, 0>>>>) /\ mat = mat0
    /\ stored = support(mat0)
    /\ choices = <<>> /\ rc = <<>> /\ m_arg = 0 /\ m_res = 0 /\ m_phase = "unused"
    /\ args \in AsyncArgs
    /\ gen_state = "created" /\ gen_i = 0 /\ gen_out = NoOut /\ gen_pre = NoPre
    /\ n_batches = 0 /\ gen_err = "none" /\ n_extra = 0
    /\ pc = "start" /\ current_batch = <<>> /\ taskqueue = <<>> /\ worker = 0
    /\ async_result = NoResult /\ produced = <<>> /\ delivered = <<>>
    /\ submitted = 0 /\ retrieved = 0 /\ raised = "none"
    /\ rcIdle

asyncFrame == UNCHANGED <<mat0, m_arg, m_res, m_phase, args, rcVars>>
genFrame ==
    UNCHANGED <<mat, stored, choices, rc, gen_state, gen_i, gen_out, gen_pre, n_batches, gen_err>>

\* The consumer's first next() on the wrapper: the body starts, line 110.
ConsumerStart ==
    /\ pc = "start"
    /\ pc' = "line112"
    /\ UNCHANGED <<current_batch, taskqueue, worker, async_result, produced, delivered,
                   submitted, retrieved, raised, n_extra>>
    /\ genFrame /\ asyncFrame

\* Line 112, next(it) giving a batch or raising an error: with a batch the
\* pool is created (115) and the loop entered (116); an error leaves the wrapper.
MainFirstBatch ==
    /\ pc = "line112"
    /\ it_next_batch(Faults)
    /\ produced' = produced_after(gen_out')
    /\ IF gen_out'.kind = "batch"
       THEN /\ current_batch' = gen_out'.value
            /\ pc' = IF truthy(gen_out'.value) THEN "line118" ELSE "done"
            /\ raised' = raised
       ELSE /\ pc' = "raised"
            /\ raised' = gen_out'.value
            /\ current_batch' = current_batch
    /\ UNCHANGED <<taskqueue, worker, async_result, delivered, submitted, retrieved, n_extra>>
    /\ asyncFrame

\* Lines 112-114, next(it) raising StopIteration: return.
MainFirstStop ==
    /\ pc = "line112"
    /\ it_next_stop
    /\ pc' = "done"
    /\ UNCHANGED <<current_batch, taskqueue, worker, async_result, produced, delivered,
                   submitted, retrieved, raised, n_extra>>
    /\ asyncFrame

\* Line 118: async_result = pool.apply_async(it.__next__)
MainSubmit ==
    /\ pc = "line118"
    /\ taskqueue' = Append(taskqueue, submitted + 1)
    /\ async_result' = [id |-> submitted + 1, state |-> "pending", out |-> NoOut]
    /\ submitted' = submitted + 1
    /\ pc' = "line119"
    /\ UNCHANGED <<current_batch, worker, produced, delivered, retrieved, raised, n_extra>>
    /\ genFrame /\ asyncFrame

\* Line 119: yield current_batch
MainYield ==
    /\ pc = "line119"
    /\ delivered' = Append(delivered, current_batch)
    /\ pc' = "suspended"
    /\ UNCHANGED <<current_batch, taskqueue, worker, async_result, produced,
                   submitted, retrieved, raised, n_extra>>
    /\ genFrame /\ asyncFrame

\* The resumed body going back to line 118 without line 120.
ConsumerResume_noget ==
    /\ pc = "suspended"
    /\ pc' = "line118"
    /\ UNCHANGED <<current_batch, taskqueue, worker, async_result, produced, delivered,
                   submitted, retrieved, raised, n_extra>>
    /\ genFrame /\ asyncFrame

\* The consumer's next() on the suspended wrapper: the body resumes at line 120.
ConsumerResume ==
    /\ pc = "suspended"
    /\ pc' = "line120"
    /\ UNCHANGED <<current_batch, taskqueue, worker, async_result, produced, delivered,
                   submitted, retrieved, raised, n_extra>>
    /\ genFrame /\ asyncFrame

\* Line 120 as current_batch = next(it): the consumer's thread runs the generator.
MainGet_direct ==
    /\ pc = "line120"
    /\ pc' = "line112"
    /\ UNCHANGED <<current_batch, taskqueue, worker, async_result, produced, delivered,
                   submitted, retrieved, raised, n_extra>>
    /\ genFrame /\ asyncFrame

\* Lines 120-122 with the new batch dropped: current_batch keeps its value.
MainGet_stale ==
    /\ pc = "line120"
    /\ async_result.state = "ready"
    /\ retrieved' = retrieved + 1
    /\ IF async_result.out.kind = "batch"
       THEN pc' = "line118" /\ raised' = raised
       ELSE IF async_result.out.kind = "StopIteration"
       THEN pc' = "done" /\ raised' = raised
       ELSE pc' = "raised" /\ raised' = async_result.out.value
    /\ UNCHANGED <<current_batch, taskqueue, worker, async_result, produced, delivered,
                   submitted, n_extra>>
    /\ genFrame /\ asyncFrame

\* Lines 120-122 with except Exception in place of except StopIteration.
MainGet_swallow ==
    /\ pc = "line120"
    /\ async_result.state = "ready"
    /\ retrieved' = retrieved + 1
    /\ IF async_result.out.kind = "batch"
       THEN /\ current_batch' = async_result.out.value
            /\ pc' = IF truthy(async_result.out.value) THEN "line118" ELSE "done"
       ELSE /\ pc' = "done"
            /\ current_batch' = current_batch
    /\ UNCHANGED <<taskqueue, worker, async_result, produced, delivered, submitted,
                   raised, n_extra>>
    /\ genFrame /\ asyncFrame

\* Lines 120-122 and 116: async_result.get() blocks until the task has ended,
\* then returns its batch (and the loop goes on, a batch being true) or raises
\* what the task raised: StopIteration is caught and the wrapper returns, any
\* other error leaves the wrapper.
MainGet ==
    /\ pc = "line120"
    /\ async_result.state = "ready"
    /\ retrieved' = retrieved + 1
    /\ IF async_result.out.kind = "batch"
       THEN /\ current_batch' = async_result.out.value
            /\ pc' = IF truthy(async_result.out.value) THEN "line118" ELSE "done"
            /\ raised' = raised
       ELSE IF async_result.out.kind = "StopIteration"
       THEN /\ pc' = "done"
            /\ UNCHANGED <<current_batch, raised>>
       ELSE /\ pc' = "raised"
            /\ raised' = async_result.out.value
            /\ current_batch' = current_batch
    /\ UNCHANGED <<taskqueue, worker, async_result, produced, delivered, submitted, n_extra>>
    /\ genFrame /\ asyncFrame

\* A next() on a wrapper that has ended: StopIteration, nothing runs.
ConsumerExtra ==
    /\ pc \in {"done", "raised"}
    /\ n_extra < MaxExtra
    /\ n_extra' = n_extra + 1
    /\ UNCHANGED asyncVars
    /\ genFrame /\ asyncFrame

\* The worker thread takes the next task of the pool and calls it.__next__.
WorkerStart ==
    /\ worker = 0
    /\ taskqueue # <<>>
    /\ worker' = Head(taskqueue)
    /\ taskqueue' = Tail(taskqueue)
    /\ UNCHANGED <<pc, current_batch, async_result, produced, delivered, submitted,
                   retrieved, raised, n_extra>>
    /\ genFrame /\ asyncFrame

\* The result of the worker's task, stored in the ApplyResult of its apply_async.
result_after(out) ==
    IF async_result.id = worker
    THEN [id |-> worker, state |-> "ready", out |-> out]
    ELSE async_result

\* it.__next__ on the worker gives a batch or raises an error.
WorkerBatch ==
    /\ worker # 0
    /\ it_next_batch(Faults)
    /\ produced' = produced_after(gen_out')
    /\ async_result' = result_after(gen_out')
    /\ worker' = 0
    /\ UNCHANGED <<pc, current_batch, taskqueue, delivered, submitted, retrieved, raised,
                   n_extra>>
    /\ asyncFrame

\* it.__next__ on the worker raises StopIteration.
WorkerStop ==
    /\ worker # 0
    /\ it_next_stop
    /\ async_result' = result_after(gen_out')
    /\ worker' = 0
    /\ UNCHANGED <<pc, current_batch, taskqueue, produced, delivered, submitted, retrieved,
                   raised, n_extra>>
    /\ asyncFrame

NextAsync ==
    \/ ConsumerStart \/ MainFirstBatch \/ MainFirstStop \/ MainSubmit \/ MainYield
    \/ ConsumerResume \/ MainGet \/ ConsumerExtra
    \/ WorkerStart \/ WorkerBatch \/ WorkerStop
SpecAsync == InitAsync /\ [][NextAsync]_vars

\* ------------------------------------------------------------------- claims
PrefixSum(w, n) == IF n = 0 THEN 0 ELSE RSum([i \in 1 .. n |-> <<w[i], 1>>])[1]

\* C9: RandomChoice.get() returns an index i with 0 <= i < k, exactly the one
\* with cdf[i-1] <= u < cdf[i] for the cumulative weights divided by their sum,
\* so an index of weight zero is never returned.
C9_InverseCdf ==
    rc_phase = "drawn" =>
        LET S == PrefixSum(rc_w, Len(rc_w))
        IN /\ 0 <= rc_idx /\ rc_idx < Len(rc_w)
           /\ rc_w[rc_idx + 1] > 0
           /\ PrefixSum(rc_w, rc_idx) * rc_u[2] <= rc_u[1] * S
           /\ rc_u[1] * S < PrefixSum(rc_w, rc_idx + 1) * rc_u[2]

\* A draw that lands on the boundary after a zero-weight first entry.
C9_Witness ==
    /\ rc_phase = "drawn" /\ Len(rc_w) = 3
    /\ rc_w[1] = 0 /\ rc_w[2] > 0 /\ rc_w[3] > rc_w[2]
    /\ rc_u = <<0, 1>> /\ rc_idx = 1

RowEmpty(m, i) == \A j \in Nodes : m[i][j][1] = 0

\* C6: MultipleRandomChoice(M)[i] returns i when row i of M has no nonzero
\* entry, and otherwise a column j with M[i][j] > 0.
C6_RowSample ==
    m_phase = "drawn" =>
        IF RowEmpty(mat0, m_arg) THEN m_res = m_arg ELSE mat0[m_arg][m_res][1] > 0

\* An empty row between two non-empty rows has been sampled.
C6_Witness ==
    /\ m_phase = "drawn" /\ m_arg = 1 /\ m_res = 1
    /\ ~RowEmpty(mat0, 0) /\ RowEmpty(mat0, 1) /\ ~RowEmpty(mat0, 2)

\* C10: constructing MultipleRandomChoice(mat) and drawing samples leaves the
\* entries of the caller's matrix unchanged.
C10_MatrixUnchanged == mat = mat0

Count(s, val) == Cardinality({p \in 1 .. Len(s) : s[p] = val})

\* C1: in every batch each of the B positive pairs (positions 1 .. B before the
\* shuffle, target drawn by MultipleRandomChoice) carries label -1 and each of
\* the B*K negative pairs carries label +1: B entries are -1 and B*K are +1.
C1_LabelConvention ==
    gen_out.kind = "batch" =>
        LET x == gen_out.value[3]
        IN /\ \A p \in 1 .. Len(x) :
                x[p] = IF gen_pre.shuind[p] <= args.batch_size THEN -1 ELSE 1
           /\ Count(x, -1) = args.batch_size
           /\ Count(x, 1) = args.batch_size * args.number_negative

\* C2: generate_batches yields exactly number_iterations batches and then ends
\* normally: every later request gives StopIteration and no element.
C2_ExactlyNumberIterations ==
    /\ n_batches = gen_i /\ gen_i <= args.number_iterations
    /\ gen_out.kind \in {"none", "batch", "StopIteration"}
    /\ gen_state = "finished" =>
          gen_out.kind = "StopIteration" /\ n_batches = args.number_iterations
    /\ gen_out.kind = "StopIteration" => gen_state = "finished"

\* The sequence has ended after two batches and was asked again.
C2_Witness ==
    /\ gen_state = "finished" /\ n_extra = MaxExtra
    /\ args.number_iterations = 2 /\ n_batches = 2

\* C7: every batch is a permutation of the B*(1+K) generated triples: the three
\* sequences have length B*(1+K) and position p of each holds the source,
\* target and label of the same generated pair.
C7_AlignedPermutation ==
    gen_out.kind = "batch" =>
        LET L == args.batch_size * (1 + args.number_negative)
            b == gen_out.value
        IN /\ Len(b[1]) = L /\ Len(b[2]) = L /\ Len(b[3]) = L
           /\ gen_pre.shuind \in Permutations_of(L)
           /\ \A p \in 1 .. L :
                LET q == gen_pre.shuind[p]
                IN b[1][p] = gen_pre.u[q] /\ b[2][p] = gen_pre.v[q] /\ b[3][p] = gen_pre.x[q]

\* A batch of two positives and two negatives whose shuffle moved a negative
\* pair of another source to the front.
C7_Witness ==
    /\ gen_out.kind = "batch"
    /\ args.batch_size = 2 /\ args.number_negative = 1
    /\ gen_pre.shuind[1] = 4 /\ gen_pre.u[1] # gen_pre.u[2]
    /\ gen_out.value[1][1] = gen_pre.u[2]

\* A batch without negatives.
C7_WitnessNoNegative ==
    gen_out.kind = "batch" /\ args.number_negative = 0 /\ Len(gen_out.value[1]) = 2

IsPrefix(s, t) == Len(s) <= Len(t) /\ s = SubSeq(t, 1, Len(s))

\* C3: async_batches delivers the batches generate_batches yields, in the same
\* order and number: what it has delivered is always a prefix of what the
\* generator has yielded, and when the wrapper ends by StopIteration it has
\* delivered all number_iterations batches, none partial, twice or extra.
C3_SameSequence ==
    /\ IsPrefix(delivered, produced)
    /\ pc = "done" =>
          delivered = produced /\ Len(delivered) = args.number_iterations

\* The wrapper has ended after delivering two different batches.
C3_Witness ==
    /\ pc = "done" /\ Len(delivered) = 2 /\ delivered[1] # delivered[2]
    /\ delivered = produced

\* The tasks given to the pool that have not ended.
Outstanding == Len(taskqueue) + (IF worker = 0 THEN 0 ELSE 1)

\* The batches the wrapper has taken from the generator: those delivered and,
\* between taking a batch and yielding it, current_batch.
Taken == Len(delivered) + (IF pc \in {"line118", "line119"} THEN 1 ELSE 0)

\* C4 as stated: at most one background computation is outstanding, the
\* generator is at most one element beyond the element last handed to the
\* consumer, and a task is submitted only after the previous result was retrieved.
C4_LookAheadBeyondDelivered ==
    /\ Outstanding <= 1
    /\ Len(produced) <= Len(delivered) + 1
    /\ submitted <= retrieved + 1
    /\ pc = "line118" => submitted = retrieved

\* C4, amended: at most one background computation is outstanding; the
\* generator is at most one element beyond current_batch, the element the
\* wrapper is handing or has last handed to the consumer, hence at most one
\* beyond the last element handed over while the consumer holds it and at
\* most two in all; a task is submitted only after the previous result was
\* retrieved.
C4_LookAheadBeyondCurrent ==
    /\ Outstanding <= 1
    /\ Len(produced) <= Taken + 1
    /\ pc \in {"suspended", "line120", "done", "raised"} => Len(produced) <= Len(delivered) + 1
    /\ Len(produced) <= Len(delivered) + 2
    /\ submitted <= retrieved + 1
    /\ pc = "line118" => submitted = retrieved

\* The consumer holds the second batch, which the worker computed while the
\* consumer held the first; the task submitted since has ended.
C4_Witness ==
    /\ pc = "suspended" /\ Len(delivered) = 2 /\ Len(produced) = 2
    /\ worker = 0 /\ async_result.state = "ready" /\ submitted = 2 /\ retrieved = 1

\* C5: an error raised while batch n is produced reaches the consumer after
\* batches 1 .. n-1 have been delivered, as the same error, on the retrieval
\* that follows; it is never swallowed nor turned into a normal end.
C5_ErrorPropagates ==
    /\ [](/\ raised # "none" => raised = gen_err /\ delivered = produced
          /\ pc = "raised" <=> raised # "none"
          /\ pc = "done" => gen_err = "none")
    /\ [][(pc \in {"line112", "line120"} /\ pc' # pc /\ gen_err' # "none")
            => (pc' = "raised" /\ raised' = gen_err' /\ delivered' = produced')]_vars

\* The second batch failed on the worker: the first was delivered, then the
\* error raised.
C5_Witness ==
    /\ pc = "raised" /\ raised = "ValueError" /\ gen_err = "ValueError"
    /\ Len(delivered) = 1 /\ retrieved = 1

====
